---- MODULE Spec2Model ----
(***************************************************************************)
(* Model of scripts/extract_epub_thumbnail.py: the EPUB cover resolver     *)
(* (find_cover_image_in_opf), the archive reader with its fallback probing *)
(* (extract_cover_from_epub) and the command-line run (main).              *)
(*                                                                         *)
(* Strings are TLA+ strings; an XML element is the function from the names *)
(* of the attributes it carries to their values, so a missing attribute is *)
(* a name outside DOMAIN.  Pixel data and pixel dimensions are not         *)
(* tracked: an image is its decodability and its colour mode.              *)
(***************************************************************************)
EXTENDS Integers, Sequences, FiniteSets, TLC

(***************************************************************************)
(* str methods used by the program                                         *)
(***************************************************************************)
\* the characters up to U+00FF that str.lower() changes: A to Z and the
\* Latin-1 capitals U+00C0 to U+00DE without the multiplication sign U+00D7
UpperChars == "ABCDEFGHIJKLMNOPQRSTUVWXYZÀÁÂÃÄÅÆÇÈÉÊËÌÍÎÏÐÑÒÓÔÕÖØÙÚÛÜÝÞ"

\* what str.lower() makes of them, position by position
LowerChars == "abcdefghijklmnopqrstuvwxyzàáâãäåæçèéêëìíîïðñòóôõöøùúûüýþ"

\* the lower-case character of each character that str.lower() changes
LowerOf ==
    [c \in {SubSeq(UpperChars, i, i) : i \in 1..Len(UpperChars)} |->
        LET i == CHOOSE k \in 1..Len(UpperChars) : SubSeq(UpperChars, k, k) = c
        IN SubSeq(LowerChars, i, i)]

\* str.lower() on one character
Lower1(c) == IF c \in DOMAIN LowerOf THEN LowerOf[c] ELSE c

RECURSIVE Lower(_)
\* str.lower()
Lower(s) ==
    IF Len(s) = 0 THEN "" ELSE Lower1(SubSeq(s, 1, 1)) \o Lower(Tail(s))

\* sub in s
Contains(s, sub) ==
    \E i \in 1..(Len(s) - Len(sub) + 1) : SubSeq(s, i, i + Len(sub) - 1) = sub

\* s.startswith(p)
StartsWith(s, p) ==
    Len(s) >= Len(p) /\ SubSeq(s, 1, Len(p)) = p

RECURSIVE ReplaceBackslash(_)
\* s.replace('\\', '/')
ReplaceBackslash(s) ==
    IF Len(s) = 0 THEN ""
    ELSE (IF SubSeq(s, 1, 1) = "\\" THEN "/" ELSE SubSeq(s, 1, 1))
         \o ReplaceBackslash(Tail(s))

(***************************************************************************)
(* pathlib.Path (POSIX flavour): a path is its root ("" for a relative      *)
(* path, "/", or "//" when the text starts with exactly two slashes) and   *)
(* its components; empty and "." components are dropped when parsing.      *)
(***************************************************************************)
RECURSIVE SplitSlash(_)
SplitSlash(s) ==
    IF ~Contains(s, "/") THEN <<s>>
    ELSE LET i == CHOOSE k \in 1..Len(s) :
                     /\ SubSeq(s, k, k) = "/"
                     /\ \A j \in 1..(k - 1) : SubSeq(s, j, j) # "/"
         IN <<SubSeq(s, 1, i - 1)>> \o SplitSlash(SubSeq(s, i + 1, Len(s)))

IsPart(p) == p # "" /\ p # "."

PathParts(s) == SelectSeq(SplitSlash(s), IsPart)

\* the root of a path text: exactly two leading slashes are kept as "//",
\* one, or three and more, give "/"
PathRoot(s) ==
    IF StartsWith(s, "//") /\ ~StartsWith(s, "///") THEN "//"
    ELSE IF StartsWith(s, "/") THEN "/"
    ELSE ""

\* Path(s)
Path(s) == [root |-> PathRoot(s), parts |-> PathParts(s)]

RECURSIVE JoinSlash(_)
JoinSlash(parts) ==
    IF Len(parts) = 0 THEN ""
    ELSE IF Len(parts) = 1 THEN parts[1]
    ELSE parts[1] \o "/" \o JoinSlash(Tail(parts))

\* str(path)
PathStr(p) ==
    IF p.root = "" /\ Len(p.parts) = 0 THEN "."
    ELSE p.root \o JoinSlash(p.parts)

\* path / s : an absolute right operand replaces the left one
PathDiv(p, s) ==
    IF StartsWith(s, "/") THEN Path(s)
    ELSE [root |-> p.root, parts |-> p.parts \o PathParts(s)]

\* path.parent
PathParent(p) ==
    IF Len(p.parts) = 0 THEN p
    ELSE [root |-> p.root, parts |-> SubSeq(p.parts, 1, Len(p.parts) - 1)]

\* path.name
PathName(p) == IF Len(p.parts) = 0 THEN "" ELSE p.parts[Len(p.parts)]

\* path.suffix : from the last dot of the name, unless that dot leads or ends it
PathSuffix(p) ==
    LET name == PathName(p)
        dots == {k \in 1..Len(name) : SubSeq(name, k, k) = "."}
    IN IF dots = {} THEN ""
       ELSE LET i == CHOOSE k \in dots : \A j \in dots : j <= k
            IN IF 1 < i /\ i < Len(name) THEN SubSeq(name, i, Len(name)) ELSE ""

(***************************************************************************)
(* xml.etree.ElementTree                                                   *)
(***************************************************************************)
\* elem.get(key): the value and whether the attribute is there
Has(elem, key) == key \in DOMAIN elem

\* elem.get(key, default)
Get(elem, key, default) == IF Has(elem, key) THEN elem[key] ELSE default

\* truthiness of elem.get(key): present and not the empty string
Truthy(elem, key) == Has(elem, key) /\ elem[key] # ""

\* index of the first TRUE in a sequence of test results, taken in document
\* order; 0 if none
FirstIndex(hits) ==
    IF \E i \in DOMAIN hits : hits[i]
    THEN CHOOSE i \in DOMAIN hits : hits[i] /\ \A j \in 1..(i - 1) : ~hits[j]
    ELSE 0

(***************************************************************************)
(* A parsed XML document is the three element lists the program queries,   *)
(* each in document order: the rootfile elements of the OASIS container    *)
(* namespace, and the meta and item elements of the OPF namespace.         *)
(* wellformed = FALSE is text on which ET.fromstring raises ParseError.    *)
(***************************************************************************)
Xml(wf, rootfiles, metas, items) ==
    [type |-> "xml", wellformed |-> wf, rootfiles |-> rootfiles,
     metas |-> metas, items |-> items]

\* what find_cover_image_in_opf hands back: a path string, None, or an
\* exception that leaves the function
Returned(path) == [kind |-> "path", value |-> path, warned |-> FALSE]

Raised(exc) == [kind |-> "raise", value |-> exc, warned |-> FALSE]

\* variant: the parse error is not caught and leaves the function
OnParseError_reraise == [kind |-> "raise", value |-> "ParseError", warned |-> FALSE]

\* except ET.ParseError: print the warning, fall through to return None
OnParseError == [kind |-> "none", value |-> "", warned |-> TRUE]

\* str(opf_dir / href)
JoinHref(opf_dir, href) == PathStr(PathDiv(opf_dir, href))

(***************************************************************************)
(* The element tree ET.fromstring builds from a manifest: package holds    *)
(* metadata, which holds the meta elements, and then manifest, which holds *)
(* the item elements; every element is in the OPF namespace and there is   *)
(* no text inside or between elements.  An element is its position in      *)
(* document order, counted from 0.                                         *)
(***************************************************************************)
OpfNs == "http://www.idpf.org/2007/opf"

\* the prefix map handed to find and findall
namespaces == [opf |-> OpfNs, dc |-> "http://purl.org/dc/elements/1.1/"]

\* find's None
NoElem == -1

ManifestElem(doc) == 2 + Len(doc.metas)

LastElem(doc) == 2 + Len(doc.metas) + Len(doc.items)

IsMeta(doc, e) == 2 <= e /\ e < ManifestElem(doc)

IsItem(doc, e) == ManifestElem(doc) < e /\ e <= LastElem(doc)

\* elem.tag
ElemTag(doc, e) ==
    "{" \o OpfNs \o "}" \o
        (IF e = 0 THEN "package"
         ELSE IF e = 1 THEN "metadata"
         ELSE IF IsMeta(doc, e) THEN "meta"
         ELSE IF e = ManifestElem(doc) THEN "manifest"
         ELSE "item")

\* elem.attrib
ElemAttrs(doc, e) ==
    IF IsMeta(doc, e) THEN doc.metas[e - 1]
    ELSE IF IsItem(doc, e) THEN doc.items[e - ManifestElem(doc)]
    ELSE [k \in {} |-> ""]

\* the parent map ElementPath builds from the root, NoElem for the root
ElemParent(doc, e) ==
    IF e = 0 THEN NoElem
    ELSE IF IsMeta(doc, e) THEN 1
    ELSE IF IsItem(doc, e) THEN ManifestElem(doc)
    ELSE 0

\* list(elem)
ElemChildren(doc, e) ==
    IF e = 0 THEN <<1, ManifestElem(doc)>>
    ELSE IF e = 1 THEN [i \in 1..Len(doc.metas) |-> 1 + i]
    ELSE IF e = ManifestElem(doc)
    THEN [i \in 1..Len(doc.items) |-> ManifestElem(doc) + i]
    ELSE <<>>

\* elem.iter() without elem itself
ElemDescendants(doc, e) ==
    IF e = 0 THEN [i \in 1..LastElem(doc) |-> i]
    ELSE ElemChildren(doc, e)

(***************************************************************************)
(* xml.etree.ElementPath, which root.find runs on the path text: the       *)
(* tokenizer, the compilation of the tokens into a list of selection       *)
(* steps, and the steps applied to the tree.                               *)
(***************************************************************************)
\* the characters \s matches, for a str pattern, among the characters up to
\* U+00FF, which are the ones a string constant can hold: tab, line feed,
\* vertical tab, form feed, carriage return, the separators U+001C to U+001F,
\* space, next line U+0085 and no-break space U+00A0
Whitespace ==
    {"\t", "\n", "", "\f", "\r", "", "", "", "", " ",
     "", " "}

\* the characters that end a name token
NameStops == {"/", "[", "]", "(", ")", "@", "!", "="} \cup Whitespace

\* the character of s at position p, "" past its end
CharAt(s, p) == IF 1 <= p /\ p <= Len(s) THEN SubSeq(s, p, p) ELSE ""

\* position of the first character of s at or after p that is in chars, or
\* that is outside chars when inside is FALSE; Len(s) + 1 if there is none
FirstAt(s, p, chars, inside) ==
    CHOOSE q \in p..(Len(s) + 1) :
        /\ q = Len(s) + 1 \/ (SubSeq(s, q, q) \in chars) = inside
        /\ \A r \in p..(q - 1) : (SubSeq(s, r, r) \in chars) # inside

\* position of the first c in s at or after p, 0 if none
IndexFrom(s, c, p) ==
    IF p > Len(s) \/ FirstAt(s, p, {c}, TRUE) > Len(s) THEN 0
    ELSE FirstAt(s, p, {c}, TRUE)

\* position after the run of whitespace that starts at p
SpaceEnd(s, p) == IF p > Len(s) THEN p ELSE FirstAt(s, p, Whitespace, FALSE)

\* position after the run [^/\[\]\(\)@!=\s]+ that starts at p
NameEnd(s, p) == IF p > Len(s) THEN p ELSE FirstAt(s, p, NameStops, TRUE)

\* position after (?:\{[^}]+\})?[^/\[\]\(\)@!=\s]+ matched at p
TagEnd(s, p) ==
    LET q == IndexFrom(s, "}", p + 1)
    IN IF /\ CharAt(s, p) = "{"
          /\ q > p + 1
          /\ q < Len(s)
          /\ CharAt(s, q + 1) \notin NameStops
       THEN NameEnd(s, q + 1)
       ELSE NameEnd(s, p)

Token(type, tag, next) == [kind |-> "token", type |-> type, tag |-> tag, next |-> next]

\* the tokens are used up
NoToken == [kind |-> "end", type |-> "", tag |-> "", next |-> 0]

\* the tokenizer raises SyntaxError: prefix not found in prefix map
BadPrefix == [kind |-> "raise", type |-> "", tag |-> "", next |-> 0]

\* a string literal from p to its closing quote at q
QuotedAt(s, p, q) == Token(SubSeq(s, p, q), "", q + 1)

\* a name from p to before q
NameAt(s, p, q) == Token("", SubSeq(s, p, q - 1), q)

\* xpath_tokenizer_re matched at position p of s: the alternatives in their
\* order; kind "skip" where none matches (a "!" not followed by "=")
Match(s, p) ==
    LET c == CharAt(s, p)
        two == c \o CharAt(s, p + 1)
    IN IF c \in {"'", "\""} /\ IndexFrom(s, c, p + 1) # 0
       THEN QuotedAt(s, p, IndexFrom(s, c, p + 1))
       ELSE IF two \in {"::", "//", "..", "()", "!="} THEN Token(two, "", p + 2)
       ELSE IF c \in {"/", ".", "*", ":", "[", "]", "(", ")", "@", "="}
       THEN Token(c, "", p + 1)
       ELSE IF c = "!"
       THEN [kind |-> "skip", type |-> "", tag |-> "", next |-> p + 1]
       ELSE IF c \in Whitespace THEN Token("", "", SpaceEnd(s, p))
       ELSE NameAt(s, p, TagEnd(s, p))

\* xpath_tokenizer on one match: a name with a prefix is rewritten with the
\* prefix's namespace, or raises when the prefix is not in the map
Qualify(t) ==
    IF t.tag = "" \/ CharAt(t.tag, 1) = "{" \/ ~Contains(t.tag, ":") THEN t
    ELSE LET i == IndexFrom(t.tag, ":", 1)
             prefix == SubSeq(t.tag, 1, i - 1)
         IN IF prefix \in DOMAIN namespaces
            THEN Token(t.type,
                       "{" \o namespaces[prefix] \o "}"
                           \o SubSeq(t.tag, i + 1, Len(t.tag)),
                       t.next)
            ELSE BadPrefix

RECURSIVE NextToken(_, _)
\* findall passes over a character no alternative matches
AfterMatch(s, m) == IF m.kind = "skip" THEN NextToken(s, m.next) ELSE Qualify(m)

\* next() on the token generator, reading s from position p
NextToken(s, p) == IF p > Len(s) THEN NoToken ELSE AfterMatch(s, Match(s, p))

\* s[-n:]
LastChars(s, n) == IF Len(s) <= n THEN s ELSE SubSeq(s, Len(s) - n + 1, Len(s))

\* _is_wildcard_tag
IsWildcardTag(tag) == StartsWith(tag, "{*}") \/ LastChars(tag, 2) = "}*"

\* the test the select function of _prepare_tag applies to an element's tag
WildcardMatches(el_tag, tag) ==
    IF tag = "{*}*" THEN TRUE
    ELSE IF tag = "{}*" THEN CharAt(el_tag, 1) # "{"
    ELSE IF StartsWith(tag, "{*}")
    THEN \/ el_tag = SubSeq(tag, 4, Len(tag))
         \/ LastChars(el_tag, Len(tag) - 2) = SubSeq(tag, 3, Len(tag))
    ELSE StartsWith(el_tag, SubSeq(tag, 1, Len(tag) - 1))

\* the tag test of prepare_child and prepare_descendant; '{}tag' is 'tag',
\* and "*" reaches here from prepare_descendant only and takes every element
TagMatches(el_tag, tag) ==
    IF tag = "*" THEN TRUE
    ELSE IF IsWildcardTag(tag) THEN WildcardMatches(el_tag, tag)
    ELSE IF StartsWith(tag, "{}") THEN el_tag = SubSeq(tag, 3, Len(tag))
    ELSE el_tag = tag

\* elem.findall(tag) with the tag of a predicate or of an element: the text
\* is tokenized again; it is one name token, a child step, except for a
\* namespace with an empty local name, whose steps match no element, as the
\* tag test does not
ChildrenTagged(doc, e, tag) ==
    SelectSeq(ElemChildren(doc, e), LAMBDA k : TagMatches(ElemTag(doc, k), tag))

Digits == "0123456789"

IsDigit(c) == c # "" /\ Contains(Digits, c)

\* \d+ and nothing else
AllDigits(s) == Len(s) > 0 /\ \A i \in 1..Len(s) : IsDigit(SubSeq(s, i, i))

\* re.match(r"\-?\d+$", s)
IsIndexText(s) ==
    AllDigits(s) \/ (StartsWith(s, "-") /\ AllDigits(SubSeq(s, 2, Len(s))))

\* the longest digit string int() converts (sys.int_info.default_max_str_digits)
MaxStrDigits == 4300

\* s without its sign
Unsigned(s) ==
    IF StartsWith(s, "-") \/ StartsWith(s, "+") THEN SubSeq(s, 2, Len(s)) ELSE s

\* the texts int() takes once a sign is removed: digits, with single
\* underscores allowed between two digits
IsIntBody(s) ==
    /\ Len(s) > 0
    /\ \A i \in 1..Len(s) :
           \/ IsDigit(SubSeq(s, i, i))
           \/ /\ SubSeq(s, i, i) = "_"
              /\ IsDigit(CharAt(s, i - 1))
              /\ IsDigit(CharAt(s, i + 1))

\* int(s) does not raise ValueError: the text is an integer literal of no
\* more than MaxStrDigits digits, underscores not counted
IsIntText(s) ==
    /\ IsIntBody(Unsigned(s))
    /\ Cardinality({i \in 1..Len(Unsigned(s)) : SubSeq(Unsigned(s), i, i) # "_"})
           <= MaxStrDigits

RECURSIVE DigitsOf(_)
\* the digits of s, its underscores left out
DigitsOf(s) ==
    IF IndexFrom(s, "_", 1) = 0 THEN s
    ELSE SubSeq(s, 1, IndexFrom(s, "_", 1) - 1)
             \o DigitsOf(SubSeq(s, IndexFrom(s, "_", 1) + 1, Len(s)))

\* a digit string without its leading zeros, "0" when it has no other digit
WithoutLeadingZeros(s) ==
    IF FirstAt(s, 1, {"0"}, FALSE) > Len(s) THEN "0"
    ELSE SubSeq(s, FirstAt(s, 1, {"0"}, FALSE), Len(s))

\* abs(int(s)) in decimal digits; an integer of any size
Magnitude(s) == WithoutLeadingZeros(DigitsOf(Unsigned(s)))

\* int(s) < 0
IsNegative(s) == StartsWith(s, "-") /\ Magnitude(s) # "0"

\* int(s) > 0
IsPositive(s) == ~StartsWith(s, "-") /\ Magnitude(s) # "0"

RECURSIVE Decimal(_)
\* str(n) for n >= 0
Decimal(n) ==
    IF n < 10 THEN SubSeq(Digits, n + 1, n + 1)
    ELSE Decimal(n \div 10) \o SubSeq(Digits, (n % 10) + 1, (n % 10) + 1)

\* a compiled step; op "none" is the None prepare_descendant and
\* prepare_predicate return when the tokens end inside them.  A step with op
\* "index" holds index >= 0 as the digits of index + 1 in value, one with op
\* "index_from_end" holds index < 0 as the digits of -index - 1
Step(op, tag, value) == [op |-> op, tag |-> tag, value |-> value]

Prepared(step, next) == [exc |-> "", step |-> step, next |-> next]

PrepareFails(exc) == [exc |-> exc, step |-> Step("none", "", ""), next |-> 0]

\* what the loop of prepare_predicate has read
Tokens(exc, closed, signature, predicate, next) ==
    [exc |-> exc, closed |-> closed, signature |-> signature,
     predicate |-> predicate, next |-> next]

RECURSIVE PredicateTokens(_, _, _, _)
\* the loop of prepare_predicate with token t in hand: the signature and the
\* token texts up to the closing "]"; whitespace is dropped, a string
\* literal loses its quotes
PredicateToken(s, t, signature, predicate) ==
    IF t.kind = "raise" THEN Tokens("SyntaxError", FALSE, signature, predicate, 0)
    ELSE IF t.kind = "end" THEN Tokens("", FALSE, signature, predicate, Len(s) + 1)
    ELSE IF t.type = "]" THEN Tokens("", TRUE, signature, predicate, t.next)
    ELSE PredicateTokens(
             s, t.next,
             IF t.type = "" /\ t.tag = "" THEN signature
             ELSE IF CharAt(t.type, 1) \in {"'", "\""} THEN signature \o "'"
             ELSE IF t.type = "" THEN signature \o "-"
             ELSE signature \o t.type,
             IF t.type = "" /\ t.tag = "" THEN predicate
             ELSE IF CharAt(t.type, 1) \in {"'", "\""}
             THEN Append(predicate, SubSeq(t.type, 2, Len(t.type) - 1))
             ELSE Append(predicate, t.tag))

\* the loop of prepare_predicate, reading s from position p
PredicateTokens(s, p, signature, predicate) ==
    PredicateToken(s, NextToken(s, p), signature, predicate)

\* the select function of [index], [last()] and [last()-index]
IndexStep(op, digits, next) == Prepared(Step(op, "", digits), next)

\* [index]: index = int(predicate[0]) - 1, which may not be negative; the
\* text matched \-?\d+, and int() raises ValueError when it is too long
PositionStep(text, next) ==
    IF ~IsIntText(text) THEN PrepareFails("ValueError")
    ELSE IF ~IsPositive(text) THEN PrepareFails("SyntaxError")
    ELSE IndexStep("index", Magnitude(text), next)

\* [last()-index]: index = int(predicate[2]) - 1, which may not be above -2
FromLastStep(text, next) ==
    IF ~IsIntText(text) THEN PrepareFails("SyntaxError")
    ELSE IF ~IsNegative(text) THEN PrepareFails("SyntaxError")
    ELSE IndexStep("index_from_end", Magnitude(text), next)

\* a predicate with a key or tag and a value
TestStep(op, tag, value, next) == Prepared(Step(op, tag, value), next)

\* the kind of predicate a signature stands for
PredicateKind(signature, indexText) ==
    IF signature = "@-" THEN "has_attr"
    ELSE IF signature = "@-='" THEN "attr_eq"
    ELSE IF signature = "@-!='" THEN "attr_ne"
    ELSE IF signature = "-" /\ ~indexText THEN "has_child"
    ELSE IF signature = ".='" \/ (signature = "-='" /\ ~indexText) THEN "text_eq"
    ELSE IF signature = ".!='" \/ (signature = "-!='" /\ ~indexText) THEN "text_ne"
    ELSE IF signature = "-" THEN "position"
    ELSE IF signature = "-()" THEN "last"
    ELSE IF signature = "-()-" THEN "from_last"
    ELSE "invalid"

\* prepare_predicate once the tokens are read and the kind is known
PredicateOfKind(kind, predicate, next) ==
    IF kind \in {"has_attr", "attr_eq", "attr_ne"}
    THEN TestStep(kind, predicate[2],
                  IF kind = "has_attr" THEN "" ELSE predicate[Len(predicate)], next)
    ELSE IF kind \in {"has_child", "text_eq", "text_ne"}
    THEN TestStep(kind, predicate[1],
                  IF kind = "has_child" THEN "" ELSE predicate[Len(predicate)], next)
    ELSE IF kind = "position" THEN PositionStep(predicate[1], next)
    ELSE IF kind \in {"last", "from_last"} /\ predicate[1] # "last"
    THEN PrepareFails("SyntaxError")
    ELSE IF kind = "last" THEN IndexStep("index_from_end", "0", next)
    ELSE IF kind = "from_last" THEN FromLastStep(predicate[3], next)
    ELSE PrepareFails("SyntaxError")

\* prepare_predicate after its loop
PredicateStep(r) ==
    IF r.exc # "" THEN PrepareFails(r.exc)
    ELSE IF ~r.closed THEN Prepared(Step("none", "", ""), r.next)
    ELSE PredicateOfKind(
             PredicateKind(r.signature,
                           Len(r.predicate) > 0 /\ IsIndexText(r.predicate[1])),
             r.predicate, r.next)

\* prepare_predicate
PreparePredicate(s, p) == PredicateStep(PredicateTokens(s, p, "", <<>>))

\* prepare_descendant with the token after "//" in hand
DescendantStep(s, t) ==
    IF t.kind = "raise" THEN PrepareFails("SyntaxError")
    ELSE IF t.kind = "end" THEN Prepared(Step("none", "", ""), Len(s) + 1)
    ELSE IF t.type \in {"*", ""}
    THEN Prepared(Step("descendant", IF t.type = "*" THEN "*" ELSE t.tag, ""),
                  t.next)
    ELSE PrepareFails("SyntaxError")

\* prepare_descendant
PrepareDescendant(s, p) == DescendantStep(s, NextToken(s, p))

\* the steps that read no further token
PlainOps == [child |-> "", star |-> "*", self |-> ".", parent |-> ".."]

\* ops[token[0]](next, token): KeyError for a token that starts no step
Prepare(s, t) ==
    IF \E op \in DOMAIN PlainOps : PlainOps[op] = t.type
    THEN Prepared(Step(CHOOSE op \in DOMAIN PlainOps : PlainOps[op] = t.type,
                       t.tag, ""),
                  t.next)
    ELSE IF t.type = "//" THEN PrepareDescendant(s, t.next)
    ELSE IF t.type = "[" THEN PreparePredicate(s, t.next)
    ELSE PrepareFails("KeyError")

Compiled(exc, selector) == [exc |-> exc, selector |-> selector]

\* a "/" between two steps is passed over
AfterSlash(s, t) ==
    IF t.kind = "token" /\ t.type = "/" THEN NextToken(s, t.next) ELSE t

\* selector.append(step), in front of what the rest of the path compiles to
WithStep(step, rest) == Compiled(rest.exc, <<step>> \o rest.selector)

RECURSIVE Compile(_, _)
\* the loop of iterfind after a step is prepared, t being the next token
CompileRest(s, step, t) ==
    IF t.kind = "raise" THEN Compiled("SyntaxError", <<>>)
    ELSE IF t.kind = "end" THEN Compiled("", <<step>>)
    ELSE WithStep(step, Compile(s, t))

\* the loop of iterfind with the outcome of ops[token[0]](next, token)
CompileStep(s, prepared) ==
    IF prepared.exc # "" THEN Compiled(prepared.exc, <<>>)
    ELSE CompileRest(s, prepared.step, AfterSlash(s, NextToken(s, prepared.next)))

\* the loop of iterfind that builds the selector, t being the token in hand
Compile(s, t) == CompileStep(s, Prepare(s, t))

RECURSIVE Concat(_)
Concat(seqs) == IF Len(seqs) = 0 THEN <<>> ELSE Head(seqs) \o Concat(Tail(seqs))

RECURSIVE Parents(_, _, _)
\* the select function of prepare_parent: each parent once, at its first turn
Parents(doc, result, seen) ==
    IF Len(result) = 0 THEN <<>>
    ELSE LET parent == ElemParent(doc, Head(result))
         IN IF parent = NoElem \/ parent \in seen
            THEN Parents(doc, Tail(result), seen)
            ELSE <<parent>> \o Parents(doc, Tail(result), seen \cup {parent})

\* elems[index] is elem, with Python's indexing: from the end when negative,
\* IndexError (the element is dropped) when out of range; e is at position k,
\* counted from 1, when index + 1 = k or -index - 1 = len(elems) - k
IsAtIndex(elems, step, e) ==
    \E k \in DOMAIN elems :
        /\ elems[k] = e
        /\ step.value = Decimal(IF step.op = "index" THEN k ELSE Len(elems) - k)

\* the test a predicate's select function applies to one element
PredicateHolds(doc, step, e) ==
    LET attrs == ElemAttrs(doc, e)
        tagged == ChildrenTagged(doc, e, step.tag)
    IN IF step.op = "has_attr" THEN Has(attrs, step.tag)
       ELSE IF step.op = "attr_eq"
       THEN Has(attrs, step.tag) /\ attrs[step.tag] = step.value
       ELSE IF step.op = "attr_ne"
       THEN Has(attrs, step.tag) /\ attrs[step.tag] # step.value
       ELSE IF step.op = "has_child" THEN Len(tagged) > 0
       ELSE IF step.op = "text_eq"
       THEN IF step.tag = "" THEN step.value = ""
            ELSE Len(tagged) > 0 /\ step.value = ""
       ELSE IF step.op = "text_ne"
       THEN IF step.tag = "" THEN step.value # ""
            ELSE Len(tagged) > 0 /\ step.value # ""
       ELSE /\ ElemParent(doc, e) # NoElem
            /\ IsAtIndex(ChildrenTagged(doc, ElemParent(doc, e), ElemTag(doc, e)),
                         step, e)

\* select(context, result) of one compiled step
Select(doc, step, result) ==
    IF step.op = "child"
    THEN Concat([i \in DOMAIN result |-> ChildrenTagged(doc, result[i], step.tag)])
    ELSE IF step.op = "star"
    THEN Concat([i \in DOMAIN result |-> ElemChildren(doc, result[i])])
    ELSE IF step.op = "self" THEN result
    ELSE IF step.op = "parent" THEN Parents(doc, result, {})
    ELSE IF step.op = "descendant"
    THEN Concat([i \in DOMAIN result |->
                    SelectSeq(ElemDescendants(doc, result[i]),
                              LAMBDA k : TagMatches(ElemTag(doc, k), step.tag))])
    ELSE SelectSeq(result, LAMBDA k : PredicateHolds(doc, step, k))

RECURSIVE ApplySelector(_, _, _)
\* the loop of iterfind that applies the selector
ApplySelector(doc, selector, result) ==
    IF Len(selector) = 0 THEN result
    ELSE ApplySelector(doc, Tail(selector), Select(doc, Head(selector), result))

Found(e) == [exc |-> "", elem |-> e]

FindRaises(exc) == [exc |-> exc, elem |-> NoElem]

\* next() on what the selector yields
First(result) == IF Len(result) = 0 THEN Found(NoElem) ELSE Found(result[1])

\* iterfind once the selector is built: a selector holding None fails when
\* it is called, with TypeError
Execute(doc, compiled) ==
    IF compiled.exc # "" THEN FindRaises(compiled.exc)
    ELSE IF \E i \in DOMAIN compiled.selector : compiled.selector[i].op = "none"
    THEN FindRaises("TypeError")
    ELSE First(ApplySelector(doc, compiled.selector, <<0>>))

\* iterfind with the first token in hand; for a path without tokens it
\* returns None, on which next() raises TypeError
FindFrom(doc, s, t) ==
    IF CharAt(s, 1) = "/" \/ t.kind = "raise" THEN FindRaises("SyntaxError")
    ELSE IF t.kind = "end" THEN FindRaises("TypeError")
    ELSE Execute(doc, Compile(s, t))

\* iterfind on the path text, to which "*" is added after a final "/"
FindIn(doc, s) == FindFrom(doc, s, NextToken(s, 1))

\* root.find(path, namespaces): the first element the path selects from the
\* root, NoElem for None, or the exception raised
Find(doc, path) ==
    FindIn(doc, IF LastChars(path, 1) = "/" THEN path \o "*" ELSE path)

\* item = root.find(f'.//opf:item[@id="{cover_id}"]', namespaces): the id is
\* pasted into the path text as it is
ItemById(doc, cover_id) == Find(doc, ".//opf:item[@id=\"" \o cover_id \o "\"]")

\* Method 1, the lookup for one meta: nothing is looked up unless the meta
\* has name="cover" and a non-empty content
Method1Lookup(doc, meta) ==
    IF Has(meta, "name") /\ meta["name"] = "cover" /\ Truthy(meta, "content")
    THEN ItemById(doc, meta["content"])
    ELSE Found(NoElem)

\* Method 1, what the loop does at one meta given its lookup: "raise" when
\* the lookup raises, "return" when it finds an element with a non-empty
\* href, "skip" otherwise
Method1Step(doc, item) ==
    IF item.exc # "" THEN "raise"
    ELSE IF item.elem # NoElem /\ Truthy(ElemAttrs(doc, item.elem), "href")
    THEN "return"
    ELSE "skip"

RECURSIVE Method1From(_, _)
\* Method 1, the loop given the lookup of the meta it is at
Method1At(doc, i, item) ==
    IF Method1Step(doc, item) = "skip" THEN Method1From(doc, i + 1) ELSE item

\* Method 1, the loop from the i-th meta on: the lookup on which it returns
\* or raises, Found(NoElem) if it runs to its end
Method1From(doc, i) ==
    IF i > Len(doc.metas) THEN Found(NoElem)
    ELSE Method1At(doc, i, Method1Lookup(doc, doc.metas[i]))

\* Method 1: the for loop over the meta elements
Method1(doc) == Method1From(doc, 1)

\* Method 2, one item: properties="cover-image" and a non-empty href
Method2Match(item) ==
    /\ Has(item, "properties") /\ item["properties"] = "cover-image"
    /\ Truthy(item, "href")

\* Method 2: index of the first such item, 0 if none
Method2Item(doc) ==
    FirstIndex([i \in DOMAIN doc.items |-> Method2Match(doc.items[i])])

\* variant: the id is compared without lowering it
Method3Match_idAsIs(item) ==
    /\ \/ Contains(Lower(Get(item, "href", "")), "cover")
       \/ Contains(Get(item, "id", ""), "cover")
    /\ Contains(Get(item, "media-type", ""), "image")

\* Method 3, one item: "cover" in the lowered href or the lowered id, and
\* "image" anywhere in the media-type
Method3Match(item) ==
    /\ \/ Contains(Lower(Get(item, "href", "")), "cover")
       \/ Contains(Lower(Get(item, "id", "")), "cover")
    /\ Contains(Get(item, "media-type", ""), "image")

\* Method 3: index of the first such item, 0 if none
Method3Item(doc) ==
    FirstIndex([i \in DOMAIN doc.items |-> Method3Match(doc.items[i])])

\* Method 3 returns str(opf_dir / item.get('href')): with no href attribute
\* the operand is None and the division raises TypeError
Method3Return(opf_dir, item) ==
    IF Has(item, "href") THEN Returned(JoinHref(opf_dir, item["href"]))
    ELSE Raised("TypeError")

\* Method 4: ElementTree's XPath subset has no starts-with(); root.find
\* rejects the predicate when it compiles the path, whatever the document
\* holds, with SyntaxError("invalid predicate")
Method4(doc, opf_dir) == Raised("SyntaxError")

\* the function once Method 1 is through: its exception leaves the function,
\* its element gives the path, and otherwise Methods 2 to 4 follow
AfterMethod1(doc, opf_dir, item) ==
    IF item.exc # "" THEN Raised(item.exc)
    ELSE IF item.elem # NoElem
    THEN Returned(JoinHref(opf_dir, ElemAttrs(doc, item.elem)["href"]))
    ELSE IF Method2Item(doc) # 0
    THEN Returned(JoinHref(opf_dir, doc.items[Method2Item(doc)]["href"]))
    ELSE IF Method3Item(doc) # 0
    THEN Method3Return(opf_dir, doc.items[Method3Item(doc)])
    ELSE Method4(doc, opf_dir)

find_cover_image_in_opf(opf_content, opf_dir) ==
    IF ~opf_content.wellformed THEN OnParseError
    ELSE AfterMethod1(opf_content, opf_dir, Method1(opf_content))

(***************************************************************************)
(* Files.  The file system and a ZIP archive are functions from a path     *)
(* string to a content; a path outside DOMAIN does not exist.              *)
(***************************************************************************)
\* decode: "ok", "truncated" (the header identifies, the pixel data does not
\* load) or "unidentified" (no known image header)
Image(fmt, decode, mode, px) ==
    [type |-> "image", fmt |-> fmt, decode |-> decode, mode |-> mode, px |-> px]

Zip(entries) == [type |-> "zip", entries |-> entries]

\* a regular file that is not a ZIP archive
PlainFile == [type |-> "file"]

Directory == [type |-> "dir"]

None == [type |-> "None"]

\* bytes.decode('utf-8') succeeds on text only; image bytes are not UTF-8
DecodesUtf8(content) == content.type = "xml"

\* Image.open identifies the header only; loading is deferred
ImageOpens(content) ==
    content.type = "image" /\ content.decode # "unidentified"

\* variant: the write is lost
WriteFile_lost(files, path, content) == files

WriteFile(files, path, content) ==
    [q \in (DOMAIN files) \cup {path} |-> IF q = path THEN content ELSE files[q]]

\* variant: the archive is left as it was
WithExit_leak(open) == open

\* the with-statement's exit: the archive is closed on every way out
WithExit(open) == FALSE

\* variant: the existence check never finds the file
ThumbnailExists_never(files, path) == FALSE

\* os.path.exists(thumbnail_path)
ThumbnailExists(files, path) == path \in DOMAIN files

common_paths ==
    << "cover.jpg", "cover.jpeg", "cover.png",
       "images/cover.jpg", "images/cover.jpeg", "images/cover.png",
       "OEBPS/cover.jpg", "OEBPS/cover.jpeg", "OEBPS/cover.png",
       "OEBPS/images/cover.jpg", "OEBPS/images/cover.jpeg",
       "OEBPS/images/cover.png" >>

\* variant: the loop keeps going and ends on the last path the archive holds
FirstCommonPath_last(archive) ==
    IF \E i \in DOMAIN common_paths : common_paths[i] \in DOMAIN archive
    THEN CHOOSE i \in DOMAIN common_paths :
             /\ common_paths[i] \in DOMAIN archive
             /\ \A j \in DOMAIN common_paths :
                    common_paths[j] \in DOMAIN archive => j <= i
    ELSE 0

\* the for loop over common_paths: index of the first path the archive holds
FirstCommonPath(archive) ==
    FirstIndex([i \in DOMAIN common_paths |-> common_paths[i] \in DOMAIN archive])

\* cover_image.convert('RGB') unless the mode is RGB or RGBA
ConvertMode(mode) == IF mode \in {"RGB", "RGBA"} THEN mode ELSE "RGB"

(***************************************************************************)
(* Bounds and the inputs drawn within them                                 *)
(***************************************************************************)
MaxItems == 2

MaxMetas == 1

MaxEntries == 2

MaxRuns == 2

SeqsUpTo(S, n) == UNION {[1..k -> S] : k \in 0..n}

Item(id, href, mediaType) ==
    ("id" :> id) @@ ("href" :> href) @@ ("media-type" :> mediaType)

Meta(name, content) == ("name" :> name) @@ ("content" :> content)

ItemCoverImg == Item("cover-img", "images/cover.jpg", "image/jpeg")

ItemPlainImage == Item("img1", "images/p1.png", "image/png")

ItemProperties ==
    Item("ci", "images/front.png", "image/png") @@ ("properties" :> "cover-image")

ItemLooseType == Item("Cover", "x/page.bin", "application/x-image")

ItemNoHref == ("id" :> "cover") @@ ("media-type" :> "image/jpeg")

ItemCoverPage == Item("ch1", "cover.xhtml", "application/xhtml+xml")

ItemUpperHref == Item("img2", "IMG/COVER.JPG", "image/jpeg")

ItemEmptyHref ==
    Item("e", "", "image/gif") @@ ("properties" :> "cover-image")

ItemBackslash == Item("bs", "images\\cover.jpg", "image/jpeg")

ItemTwoSlashes == Item("cover2", "//images/cover.jpg", "image/jpeg")

ItemPool ==
    { ItemCoverImg, ItemPlainImage, ItemProperties, ItemLooseType, ItemNoHref,
      ItemCoverPage }

MetaPool ==
    { Meta("cover", "cover-img"), Meta("cover", "cover"),
      Meta("cover", "cover-img\"b") }

Manifest(metas, items) == Xml(TRUE, <<>>, metas, items)

MalformedXml == Xml(FALSE, <<>>, <<>>, <<>>)

Manifests ==
    { Manifest(m, i) : m \in SeqsUpTo(MetaPool, MaxMetas),
                       i \in SeqsUpTo(ItemPool, MaxItems) }

\* manifests for the cases the pools leave out: a meta that is not the cover
\* meta, an href in upper case, and empty hrefs in Methods 1 and 2
ExtraManifests ==
    { Manifest(<<Meta("generator", "img1")>>, <<ItemPlainImage>>),
      Manifest(<<Meta("generator", "cover-img"), Meta("cover", "img1")>>,
               <<ItemCoverImg, ItemPlainImage>>),
      Manifest(<<>>, <<ItemCoverPage, ItemUpperHref>>),
      Manifest(<<>>, <<ItemEmptyHref, ItemProperties>>),
      Manifest(<<Meta("cover", "e")>>, <<ItemEmptyHref>>),
      Manifest(<<Meta("cover", "e"), Meta("cover", "img2")>>,
               <<ItemEmptyHref, ItemUpperHref>>) }

\* the manifests run against varied archive contents
RunManifests ==
    { MalformedXml,
      Manifest(<<>>, <<>>),
      Manifest(<<Meta("cover", "cover-img")>>, <<ItemCoverPage, ItemCoverImg>>),
      Manifest(<<>>, <<ItemCoverPage, ItemPlainImage>>),
      Manifest(<<>>, <<ItemBackslash>>),
      Manifest(<<>>, <<ItemTwoSlashes>>),
      Manifest(<<Meta("cover", ""), Meta("cover", "cover-img")>>, <<ItemCoverImg>>),
      Manifest(<<Meta("cover", "cover-img\"]")>>, <<ItemCoverImg>>),
      Manifest(<<>>, <<ItemNoHref>>) }

Container(rootfiles) == Xml(TRUE, rootfiles, <<>>, <<>>)

GoodContainer(opfPath) == Container(<<("full-path" :> opfPath)>>)

CoverJpeg == Image("JPEG", "ok", "RGB", "a")

ImagePool ==
    { CoverJpeg, Image("JPEG", "ok", "CMYK", "b"),
      Image("PNG", "truncated", "RGBA", "c"),
      Image("PNG", "unidentified", "P", "d") }

ImagePaths ==
    { "cover.jpg", "cover.png", "OEBPS/images/cover.jpg", "OEBPS/images/p1.png" }

\* up to MaxEntries image entries
ImageLayouts ==
    UNION { [S -> ImagePool] : S \in { T \in SUBSET ImagePaths :
                                           Cardinality(T) <= MaxEntries } }

EmptyFiles == [q \in {} |-> None]

ContainerName == "META-INF/container.xml"

Epub(opfPath, opf, images) ==
    Zip((ContainerName :> GoodContainer(opfPath)) @@ (opfPath :> opf) @@ images)

DefaultImages ==
    ("OEBPS/images/cover.jpg" :> CoverJpeg) @@ ("cover.png" :> CoverJpeg)

\* archives whose container stage goes wrong, or whose manifest sits at the root
ContainerEpubs ==
    { Zip(EmptyFiles),
      Zip(DefaultImages),
      Zip((ContainerName :> CoverJpeg) @@ DefaultImages),
      Zip((ContainerName :> MalformedXml) @@ DefaultImages),
      Zip((ContainerName :> Container(<<>>)) @@ DefaultImages),
      Zip((ContainerName :> Container(<<("media-type" :> "x")>>)) @@ DefaultImages),
      Zip((ContainerName :> GoodContainer("")) @@ DefaultImages),
      Zip((ContainerName :> GoodContainer("OEBPS/content.opf")) @@ DefaultImages),
      Zip((ContainerName :> GoodContainer("cover.png")) @@ DefaultImages),
      Epub("content.opf",
           Manifest(<<Meta("cover", "cover-img")>>, <<ItemCoverImg>>),
           ("images/cover.jpg" :> CoverJpeg)),
      Epub("OEBPS/content.opf", MalformedXml, DefaultImages) }

\* manifests whose cover meta carries a double quote in its content, so that
\* the text after it is read as part of the path: a second predicate on the
\* same item, one on an id no item has, a closing bracket after a tab, a
\* second predicate after a no-break space, and a walk from one item up to
\* the manifest and down to another item
PastedPathManifests ==
    { Manifest(<<Meta("cover", "cover-img\"][@href=\"images/cover.jpg")>>,
               <<ItemCoverImg>>),
      Manifest(<<Meta("cover", "nosuch\"][@href=\"images/cover.jpg")>>,
               <<ItemCoverImg>>),
      Manifest(<<Meta("cover", "cover-img\"\t]")>>, <<ItemCoverImg>>),
      Manifest(<<Meta("cover", "cover-img\" ][@href=\"images/cover.jpg")>>,
               <<ItemCoverImg>>),
      Manifest(<<Meta("cover", "ch1\"]/../opf:item[@id=\"cover-img")>>,
               <<ItemCoverPage, ItemCoverImg>>) }

PastedPathEpubs ==
    { Epub("OEBPS/content.opf", m, DefaultImages) : m \in PastedPathManifests }

Prog == "extract_epub_thumbnail.py"

BookPath == "lib/Book.epub"

OldThumbnail == Image("PNG", "ok", "RGB", "old")

\* what is on disk next to the input before the first run
ThumbStates ==
    { EmptyFiles,
      ("lib/thumb" :> Directory),
      ("lib/thumb" :> Directory) @@ ("lib/thumb/Book.epub.png" :> OldThumbnail),
      ("lib/thumb" :> PlainFile) }

\* no thumb directory yet, or a thumbnail already at the target path
SkipStates ==
    { EmptyFiles,
      ("lib/thumb" :> Directory) @@ ("lib/thumb/Book.epub.png" :> OldThumbnail) }

Input(args, files) == [argv |-> args, fs |-> files]

SimpleEpub == Epub("OEBPS/content.opf", Manifest(<<>>, <<ItemCoverImg>>), DefaultImages)

Inputs ==
    \* wrong argument count
    { Input(a, (BookPath :> SimpleEpub) @@ t) :
          a \in {<<Prog>>, <<Prog, BookPath, BookPath>>}, t \in ThumbStates }
    \cup
    \* the file named: missing, not an .epub name, not an archive
    { Input(<<Prog, n>>, (IF c = None THEN EmptyFiles ELSE (n :> c)) @@ t) :
          n \in {BookPath, "lib/Book.EPUB", "lib/notes.txt", "lib/.epub"},
          c \in {None, SimpleEpub, PlainFile, Directory},
          t \in ThumbStates }
    \cup
    { Input(<<Prog, "Book.epub">>, ("Book.epub" :> SimpleEpub) @@ t) :
          t \in { EmptyFiles, ("thumb/Book.epub.png" :> OldThumbnail)
                              @@ ("thumb" :> Directory) } }
    \cup
    { Input(<<Prog, BookPath>>, (BookPath :> z) @@ t) :
          z \in ContainerEpubs \cup PastedPathEpubs, t \in ThumbStates }
    \cup
    \* every manifest within the bounds, over one archive layout
    { Input(<<Prog, BookPath>>,
            (BookPath :> Epub("OEBPS/content.opf", m, DefaultImages))) :
          m \in Manifests \cup ExtraManifests }
    \cup
    \* every archive layout within the bounds, over the run manifests
    { Input(<<Prog, BookPath>>,
            (BookPath :> Epub("OEBPS/content.opf", m, i)) @@ t) :
          m \in RunManifests, i \in ImageLayouts, t \in SkipStates }

(***************************************************************************)
(* State                                                                   *)
(***************************************************************************)
VARIABLES
    argv,         \* sys.argv
    fs,           \* the file system
    fs0,          \* the file system when the current run started
    run,          \* number of the current invocation
    hist,         \* one record per finished earlier invocation
    pc,           \* position of the current run
    exitCode,     \* -1 while running, then the process exit status
    fault,        \* name of the exception that left main unhandled, or "none"
    failedAt,     \* the stage that failed, or "none"
    out,          \* the lines printed, as tags
    archiveOpen,  \* the ZipFile is open
    opened,       \* the ZipFile was opened during this run
    opf_path,
    opf_content,
    found,        \* what find_cover_image_in_opf handed back
    probed,       \* the fallback loop ran
    cover_src,    \* archive entry read as the cover, "" if none
    cover_image,
    wrote         \* this run saved a thumbnail

vars == << argv, fs, fs0, run, hist, pc, exitCode, fault, failedAt, out,
           archiveOpen, opened, opf_path, opf_content, found, probed,
           cover_src, cover_image, wrote >>

NotCalled == [kind |-> "unset", value |-> "", warned |-> FALSE]

\* the state of a process that has just been started
Fresh ==
    /\ pc = "main"
    /\ exitCode = -1
    /\ fault = "none"
    /\ failedAt = "none"
    /\ out = <<>>
    /\ archiveOpen = FALSE
    /\ opened = FALSE
    /\ opf_path = ""
    /\ opf_content = None
    /\ found = NotCalled
    /\ probed = FALSE
    /\ cover_src = ""
    /\ cover_image = None
    /\ wrote = FALSE

Init ==
    /\ \E inp \in Inputs : argv = inp.argv /\ fs = inp.fs /\ fs0 = inp.fs
    /\ run = 1
    /\ hist = <<>>
    /\ Fresh

(***************************************************************************)
(* main, up to the call of extract_cover_from_epub                         *)
(***************************************************************************)
epub_path == Path(argv[2])

\* sys.exit(code) after the diagnostic
Exit(code, stage, lines) ==
    /\ pc' = "done"
    /\ exitCode' = code
    /\ failedAt' = stage
    /\ out' = out \o lines

Main_Validate ==
    /\ pc = "main"
    /\ IF Len(argv) # 2
       THEN Exit(1, "args", <<"usage">>)
       ELSE IF PathStr(epub_path) \notin DOMAIN fs
       THEN Exit(1, "exists", <<"file_not_found">>)
       ELSE IF Lower(PathSuffix(epub_path)) # ".epub"
       THEN Exit(1, "suffix", <<"must_be_epub">>)
       ELSE /\ pc' = "open_zip"
            /\ out' = out \o <<"processing">>
            /\ UNCHANGED <<exitCode, failedAt>>
    /\ UNCHANGED << argv, fs, fs0, run, hist, fault, archiveOpen, opened,
                    opf_path, opf_content, found, probed, cover_src,
                    cover_image, wrote >>

(***************************************************************************)
(* extract_cover_from_epub                                                 *)
(***************************************************************************)
entries == fs[PathStr(epub_path)].entries

\* a return from inside the with block, or an exception caught by one of the
\* handlers around it: the archive is released and main gets the value
ExtractReturn(image, stage, lines) ==
    /\ cover_image' = image
    /\ archiveOpen' = WithExit(archiveOpen)
    /\ failedAt' = stage
    /\ out' = out \o lines
    /\ pc' = "check_cover"

\* zipfile.ZipFile(epub_path, 'r')
Extract_Open ==
    /\ pc = "open_zip"
    /\ LET file == fs[PathStr(epub_path)]
       IN IF file.type = "zip"
          THEN /\ archiveOpen' = TRUE
               /\ opened' = TRUE
               /\ pc' = "read_container"
               /\ UNCHANGED <<failedAt, out>>
          ELSE /\ failedAt' = "zip"
               /\ out' = out \o (IF file.type = "dir"
                                 THEN <<"error_extracting">>
                                 ELSE <<"not_a_valid_zip">>)
               /\ pc' = "check_cover"
               /\ UNCHANGED <<archiveOpen, opened>>
    /\ UNCHANGED << argv, fs, fs0, run, hist, exitCode, fault, opf_path,
                    opf_content, found, probed, cover_src, cover_image, wrote >>

\* read and parse META-INF/container.xml, take rootfile's full-path
Extract_Container ==
    /\ pc = "read_container"
    /\ IF \/ ContainerName \notin DOMAIN entries
          \/ ~DecodesUtf8(entries[ContainerName])
          \/ ~entries[ContainerName].wellformed
       THEN /\ ExtractReturn(None, "container", <<"error_extracting">>)
            /\ UNCHANGED opf_path
       ELSE LET rootfiles == entries[ContainerName].rootfiles
            IN IF Len(rootfiles) = 0
               THEN /\ ExtractReturn(None, "container", <<"no_rootfile">>)
                    /\ UNCHANGED opf_path
               ELSE IF ~Truthy(rootfiles[1], "full-path")
               THEN /\ ExtractReturn(None, "container", <<"no_opf_path">>)
                    /\ UNCHANGED opf_path
               ELSE /\ opf_path' = rootfiles[1]["full-path"]
                    /\ pc' = "read_opf"
                    /\ UNCHANGED <<cover_image, archiveOpen, failedAt, out>>
    /\ UNCHANGED << argv, fs, fs0, run, hist, exitCode, fault, opened,
                    opf_content, found, probed, cover_src, wrote >>

\* epub_zip.read(opf_path).decode('utf-8')
Extract_ReadOpf ==
    /\ pc = "read_opf"
    /\ IF opf_path \notin DOMAIN entries \/ ~DecodesUtf8(entries[opf_path])
       THEN /\ ExtractReturn(None, "opf", <<"error_extracting">>)
            /\ UNCHANGED opf_content
       ELSE /\ opf_content' = entries[opf_path]
            /\ pc' = "find_cover"
            /\ UNCHANGED <<cover_image, archiveOpen, failedAt, out>>
    /\ UNCHANGED << argv, fs, fs0, run, hist, exitCode, fault, opened,
                    opf_path, found, probed, cover_src, wrote >>

opf_dir == PathParent(Path(opf_path))

\* cover_path = find_cover_image_in_opf(opf_content, opf_dir)
Extract_FindCover ==
    /\ pc = "find_cover"
    /\ LET r == find_cover_image_in_opf(opf_content, opf_dir)
       IN /\ found' = r
          /\ IF r.kind = "raise"
             THEN ExtractReturn(None, "cover", <<"error_extracting">>)
             ELSE /\ pc' = IF r.kind = "path" /\ r.value # ""
                           THEN "read_cover" ELSE "fallback"
                  /\ out' = out \o (IF r.warned THEN <<"warning_parse_opf">>
                                    ELSE <<>>)
                  /\ UNCHANGED <<cover_image, archiveOpen, failedAt>>
    /\ UNCHANGED << argv, fs, fs0, run, hist, exitCode, fault, opened,
                    opf_path, opf_content, probed, cover_src, wrote >>

\* Image.open(io.BytesIO(image_data)) and the return, or the exception that
\* the outer handler turns into None
OpenAndReturn(name, lines) ==
    IF ImageOpens(entries[name])
    THEN ExtractReturn(entries[name], "none", lines)
    ELSE ExtractReturn(None, "decode", lines \o <<"error_extracting">>)

\* if not cover_path: probe common_paths in order
Extract_Fallback ==
    /\ pc = "fallback"
    /\ probed' = TRUE
    /\ LET k == FirstCommonPath(entries)
       IN IF k = 0
          THEN /\ ExtractReturn(None, "cover",
                                <<"warning_not_in_manifest", "no_cover_in_epub">>)
               /\ UNCHANGED cover_src
          ELSE /\ cover_src' = common_paths[k]
               /\ OpenAndReturn(common_paths[k], <<"warning_not_in_manifest">>)
    /\ UNCHANGED << argv, fs, fs0, run, hist, exitCode, fault, opened,
                    opf_path, opf_content, found, wrote >>

\* normalise the separators and read the entry the manifest named
Extract_ReadCover ==
    /\ pc = "read_cover"
    /\ LET cover_path == ReplaceBackslash(found.value)
       IN IF cover_path \notin DOMAIN entries
          THEN /\ ExtractReturn(None, "cover", <<"cover_not_at_path">>)
               /\ UNCHANGED cover_src
          ELSE /\ cover_src' = cover_path
               /\ OpenAndReturn(cover_path, <<>>)
    /\ UNCHANGED << argv, fs, fs0, run, hist, exitCode, fault, opened,
                    opf_path, opf_content, found, probed, wrote >>

(***************************************************************************)
(* main, after the call                                                    *)
(***************************************************************************)
\* if cover_image is None: sys.exit(1)
Main_CheckCover ==
    /\ pc = "check_cover"
    /\ IF cover_image = None
       THEN Exit(1, failedAt, <<"failed_to_extract">>)
       ELSE /\ pc' = "thumb_path"
            /\ UNCHANGED <<exitCode, failedAt, out>>
    /\ UNCHANGED << argv, fs, fs0, run, hist, fault, archiveOpen, opened,
                    opf_path, opf_content, found, probed, cover_src,
                    cover_image, wrote >>

thumb_dir == PathDiv(PathParent(epub_path), "thumb")

thumbnail_path == PathStr(PathDiv(thumb_dir, PathName(epub_path) \o ".png"))

\* an exception nothing catches: traceback, exit status 1
Unhandled(exc, stage) ==
    /\ fault' = exc
    /\ Exit(1, stage, <<>>)

\* thumb_dir.mkdir(exist_ok=True), then the skip when the thumbnail is there
Main_ThumbPath ==
    /\ pc = "thumb_path"
    /\ LET dir == PathStr(thumb_dir)
       IN IF dir \in DOMAIN fs /\ fs[dir].type # "dir"
          THEN /\ Unhandled("FileExistsError", "mkdir")
               /\ UNCHANGED fs
          ELSE /\ fs' = WriteFile(fs, dir, Directory)
               /\ UNCHANGED fault
               /\ IF ThumbnailExists(fs, thumbnail_path)
                  THEN Exit(0, "none", <<"already_exists_skipping">>)
                  ELSE /\ pc' = "save"
                       /\ UNCHANGED <<exitCode, failedAt, out>>
    /\ UNCHANGED << argv, fs0, run, hist, archiveOpen, opened, opf_path,
                    opf_content, found, probed, cover_src, cover_image, wrote >>

\* convert, thumbnail, save: the pixel data is loaded here for the first time
Main_Save ==
    /\ pc = "save"
    /\ IF cover_image.decode # "ok"
       THEN /\ Unhandled("OSError", "decode")
            /\ UNCHANGED <<fs, wrote>>
       ELSE /\ fs' = WriteFile(fs, thumbnail_path,
                               Image("PNG", "ok", ConvertMode(cover_image.mode),
                                     cover_image.px))
            /\ wrote' = TRUE
            /\ UNCHANGED fault
            /\ Exit(0, "none", <<"saved", "size">>)
    /\ UNCHANGED << argv, fs0, run, hist, archiveOpen, opened, opf_path,
                    opf_content, found, probed, cover_src, cover_image >>

\* the file at the thumbnail path, None when there is none
Thumbnail(files) ==
    IF Len(argv) = 2 /\ thumbnail_path \in DOMAIN files
    THEN files[thumbnail_path] ELSE None

\* the tool is invoked again with the same arguments on the same disk
NextRun ==
    /\ pc = "done"
    /\ run < MaxRuns
    /\ run' = run + 1
    /\ hist' = Append(hist, [exitCode |-> exitCode, wrote |-> wrote,
                             fault |-> fault, thumbnail |-> Thumbnail(fs)])
    /\ fs0' = fs
    /\ pc' = "main"
    /\ exitCode' = -1
    /\ fault' = "none"
    /\ failedAt' = "none"
    /\ out' = <<>>
    /\ archiveOpen' = FALSE
    /\ opened' = FALSE
    /\ opf_path' = ""
    /\ opf_content' = None
    /\ found' = NotCalled
    /\ probed' = FALSE
    /\ cover_src' = ""
    /\ cover_image' = None
    /\ wrote' = FALSE
    /\ UNCHANGED <<argv, fs>>

Next ==
    \/ Main_Validate
    \/ Extract_Open
    \/ Extract_Container
    \/ Extract_ReadOpf
    \/ Extract_FindCover
    \/ Extract_Fallback
    \/ Extract_ReadCover
    \/ Main_CheckCover
    \/ Main_ThumbPath
    \/ Main_Save
    \/ NextRun

Spec == Init /\ [][Next]_vars

(***************************************************************************)
(* Properties                                                              *)
(***************************************************************************)
\* extract_cover_from_epub has returned
AfterExtract == pc \in {"check_cover", "thumb_path", "save", "done"}

\* find_cover_image_in_opf has been called in this run
Resolved == found.kind # "unset"

\* the input passed main's checks: two arguments, an existing file, an .epub name
ValidInput ==
    /\ Len(argv) = 2
    /\ PathStr(epub_path) \in DOMAIN fs0
    /\ Lower(PathSuffix(epub_path)) = ".epub"

\* media-type starts with "image"
ImageTyped(item) == StartsWith(Get(item, "media-type", ""), "image")

\* heuristic 4 as stated: the first image-typed item in document order
Stated4Item(doc) ==
    FirstIndex([i \in DOMAIN doc.items |-> ImageTyped(doc.items[i])])

\* the item with the given id, 0 if none
StatedItemWithId(doc, id) ==
    FirstIndex([i \in DOMAIN doc.items |->
                   Has(doc.items[i], "id") /\ doc.items[i]["id"] = id])

\* heuristic 1 as stated, one meta: name="cover" and a content that is the id
\* of an item with an href
Stated1Meta(doc, meta) ==
    /\ Has(meta, "name") /\ meta["name"] = "cover"
    /\ Truthy(meta, "content")
    /\ StatedItemWithId(doc, meta["content"]) # 0
    /\ Truthy(doc.items[StatedItemWithId(doc, meta["content"])], "href")

\* heuristic 1 as stated: the item the first such meta names, 0 if none
Stated1Item(doc) ==
    LET k == FirstIndex([i \in DOMAIN doc.metas |-> Stated1Meta(doc, doc.metas[i])])
    IN IF k = 0 THEN 0 ELSE StatedItemWithId(doc, doc.metas[k]["content"])

\* the candidate of the lowest-numbered heuristic that yields one, 0 if none
LowestCandidate(doc) ==
    IF Stated1Item(doc) # 0 THEN Stated1Item(doc)
    ELSE IF Method2Item(doc) # 0 THEN Method2Item(doc)
    ELSE IF Method3Item(doc) # 0 THEN Method3Item(doc)
    ELSE Stated4Item(doc)

\* C1: for a well-formed manifest the resolver returns the candidate of the
\* lowest-numbered heuristic that yields one, as that item's href joined to
\* the OPF directory.
C1_LowestHeuristicWins ==
    (/\ Resolved
     /\ opf_content.wellformed
     /\ LowestCandidate(opf_content) # 0
     /\ Has(opf_content.items[LowestCandidate(opf_content)], "href"))
    => found.kind = "path"
       /\ found.value =
              JoinHref(opf_dir,
                       opf_content.items[LowestCandidate(opf_content)]["href"])

\* C2: when heuristics 1 to 3 yield nothing and some item is image-typed, the
\* resolver returns the href of the first image-typed item joined to the OPF
\* directory, and the run reads that archive entry.
C2_FirstImageItem ==
    (/\ Resolved
     /\ opf_content.wellformed
     /\ Stated1Item(opf_content) = 0
     /\ Method2Item(opf_content) = 0
     /\ Method3Item(opf_content) = 0
     /\ Stated4Item(opf_content) # 0
     /\ Truthy(opf_content.items[Stated4Item(opf_content)], "href"))
    => LET path == JoinHref(opf_dir,
                            opf_content.items[Stated4Item(opf_content)]["href"])
       IN /\ found.kind = "path"
          /\ found.value = path
          /\ (AfterExtract /\ path \in DOMAIN entries) => cover_src = path

\* C3: when a well-formed manifest has no item matching any heuristic, the
\* resolver returns "not found" and the fallback probing runs; the run exits
\* with 1 only if no conventional path is present (or the one found does not
\* decode).
C3_NoMatchFallsBack ==
    (/\ Resolved
     /\ opf_content.wellformed
     /\ LowestCandidate(opf_content) = 0)
    => /\ found.kind = "none"
       /\ AfterExtract => probed
       /\ (pc = "done" /\ exitCode = 1)
              => \/ FirstCommonPath(entries) = 0
                 \/ entries[common_paths[FirstCommonPath(entries)]].decode # "ok"
                 \/ fault = "FileExistsError"

\* the manifest was read as text but is not parseable XML
ManifestUnparseable == Resolved /\ ~opf_content.wellformed

\* mkdir can create or reuse the thumb directory
ThumbDirUsable ==
    PathStr(thumb_dir) \in DOMAIN fs0 => fs0[PathStr(thumb_dir)].type = "dir"

\* the archive entry at name is an image that decodes fully
Decodable(name) ==
    /\ name \in DOMAIN entries
    /\ entries[name].type = "image"
    /\ entries[name].decode = "ok"

\* the fixed order of the conventional paths: the three names at the archive
\* root, then under images/, OEBPS/ and OEBPS/images/
ConventionalOrder ==
    LET prefixes == <<"", "images/", "OEBPS/", "OEBPS/images/">>
        names == <<"cover.jpg", "cover.jpeg", "cover.png">>
    IN [i \in 1..12 |-> prefixes[((i - 1) \div 3) + 1] \o names[((i - 1) % 3) + 1]]

\* position in ConventionalOrder of the first path the archive holds, 0 if none
FirstConventional ==
    IF \E i \in 1..12 : ConventionalOrder[i] \in DOMAIN entries
    THEN CHOOSE i \in 1..12 :
             /\ ConventionalOrder[i] \in DOMAIN entries
             /\ \A j \in 1..(i - 1) : ConventionalOrder[j] \notin DOMAIN entries
    ELSE 0

\* the run ended with exit code 0 and a thumbnail at the target path
Succeeded == exitCode = 0 /\ thumbnail_path \in DOMAIN fs

\* C4 as stated: an unparseable manifest gives a warning and "not found", the
\* fallback paths are probed, and the run succeeds whenever one of those paths
\* is present and decodable.
C4_AnyDecodablePathSucceeds ==
    (ManifestUnparseable /\ pc = "done" /\ ThumbDirUsable)
    => /\ found.kind = "none" /\ found.warned
       /\ probed
       /\ (\E i \in 1..12 : Decodable(ConventionalOrder[i])) => Succeeded

\* C4 amended: an unparseable manifest gives a warning and "not found", the
\* fallback paths are probed, and the run succeeds whenever the first of those
\* paths present in the archive is decodable; the thumbnail is then the one
\* made from that entry unless one was already there.
C4_FirstPresentDecodableSucceeds ==
    (ManifestUnparseable /\ pc = "done" /\ ThumbDirUsable)
    => /\ found.kind = "none" /\ found.warned
       /\ probed
       /\ (FirstConventional # 0 /\ Decodable(ConventionalOrder[FirstConventional]))
              => /\ Succeeded
                 /\ thumbnail_path \notin DOMAIN fs0
                        => /\ wrote
                           /\ fs[thumbnail_path].px =
                                  entries[ConventionalOrder[FirstConventional]].px

\* C4 witness: an unparseable manifest, a later fallback path that decodes, a
\* thumbnail written from it
C4_Witness ==
    /\ ManifestUnparseable
    /\ pc = "done"
    /\ FirstConventional > 1
    /\ wrote
    /\ exitCode = 0

\* C5: when the fallback probing runs, the entry read is the first path of the
\* fixed order that the archive holds, whatever later paths it also holds; if
\* it holds none, extraction fails and the run exits with code 1.
C5_FallbackTakesFirstPresent ==
    (probed /\ AfterExtract)
    => IF FirstConventional # 0
       THEN /\ cover_src = ConventionalOrder[FirstConventional]
            /\ cover_image # None => cover_image = entries[cover_src]
       ELSE /\ cover_src = ""
            /\ cover_image = None
            /\ pc = "done" => exitCode = 1

\* C5 witness: two conventional paths present, the earlier one taken
C5_Witness ==
    /\ probed
    /\ pc = "done"
    /\ cover_image # None
    /\ \E i \in 1..12 : /\ i > FirstConventional
                        /\ ConventionalOrder[i] \in DOMAIN entries

\* C6 as stated: with a thumbnail already at the target path when the run
\* starts on an existing .epub input, the run exits with code 0 and leaves the
\* file unchanged, whatever the archive holds.
C6_ExistingThumbnailAlwaysSkips ==
    (pc = "done" /\ ValidInput /\ thumbnail_path \in DOMAIN fs0)
    => /\ exitCode = 0
       /\ ~wrote
       /\ fs[thumbnail_path] = fs0[thumbnail_path]

\* C6 amended: with a thumbnail already at the target path when the run starts
\* on an existing .epub input, the run writes nothing and leaves the file
\* unchanged; it exits with code 0 when a cover image was extracted from the
\* archive and with code 1 when none was.
C6_ExistingThumbnailKept ==
    (pc = "done" /\ ValidInput /\ thumbnail_path \in DOMAIN fs0)
    => /\ ~wrote
       /\ fs[thumbnail_path] = fs0[thumbnail_path]
       /\ exitCode = (IF cover_image # None THEN 0 ELSE 1)

\* C6 witness: the thumbnail was there and the run skipped with success
C6_Witness ==
    /\ pc = "done"
    /\ ValidInput
    /\ thumbnail_path \in DOMAIN fs0
    /\ cover_image # None
    /\ exitCode = 0
    /\ out[Len(out)] = "already_exists_skipping"

\* C7: if a run writes the thumbnail and exits 0, the next run on the same
\* input exits 0 without writing and leaves the file as the earlier run
\* wrote it.
C7_SecondRunIsNoOp ==
    (/\ pc = "done"
     /\ run > 1
     /\ hist[run - 1].wrote
     /\ hist[run - 1].exitCode = 0)
    => /\ exitCode = 0
       /\ ~wrote
       /\ hist[run - 1].thumbnail # None
       /\ Thumbnail(fs) = hist[run - 1].thumbnail

\* C7 witness: a second run that ended after a first run that wrote
C7_Witness ==
    /\ pc = "done"
    /\ run = 2
    /\ hist[1].wrote
    /\ hist[1].exitCode = 0
    /\ exitCode = 0

\* the stages whose failure C8 lists
ListedStages == {"args", "exists", "suffix", "zip", "container", "cover", "decode"}

\* C8: a run in which a listed stage fails ends with exit code 1 as a reported
\* error, not an unhandled fault, runs no later stage and writes no thumbnail.
C8_FailureIsReportedExit1 ==
    (pc = "done" /\ failedAt \in ListedStages)
    => /\ exitCode = 1
       /\ ~wrote
       /\ fault = "none"
       /\ Len(argv) = 2
              => (thumbnail_path \in DOMAIN fs) = (thumbnail_path \in DOMAIN fs0)
       /\ fault = "none"
              => out[Len(out)] \in {"usage", "file_not_found", "must_be_epub",
                             "failed_to_extract"}

\* C9: whenever extract_cover_from_epub has returned, on any path, the archive
\* is closed; so it is closed in every terminal state.
C9_ArchiveClosedAfterExtract ==
    AfterExtract => ~archiveOpen

\* C9 witness: the archive was opened and extraction returned early with an error
C9_Witness ==
    /\ opened
    /\ pc = "done"
    /\ failedAt = "container"
    /\ ~archiveOpen

\* "cover" in the href or the id, compared case-insensitively
NamesCover(item) ==
    \/ Contains(Lower(Get(item, "href", "")), "cover")
    \/ Contains(Lower(Get(item, "id", "")), "cover")

\* heuristics 1 and 2, as stated, yield nothing on a well-formed manifest: no
\* meta name="cover" has for content the id of an item with an href, and no
\* item with an href has properties="cover-image"
Heuristics1And2YieldNothing ==
    /\ Resolved
    /\ opf_content.wellformed
    /\ Stated1Item(opf_content) = 0
    /\ Method2Item(opf_content) = 0

\* some meta name="cover" has a double quote in its content, which ends the
\* string literal of the path that line 34 builds around the content
QuoteInCoverContent(doc) ==
    \E i \in DOMAIN doc.metas :
        /\ Has(doc.metas[i], "name") /\ doc.metas[i]["name"] = "cover"
        /\ Contains(Get(doc.metas[i], "content", ""), "\"")
    /\ found.kind = "path"
    /\ Method3Item(opf_content) # 0
    /\ ~ImageTyped(opf_content.items[Method3Item(opf_content)])
    /\ ~Contains(Get(opf_content.items[Method3Item(opf_content)], "id", ""), "cover")

====
